---- MODULE Spec2Model ----
(***************************************************************************)
(* A model of go-mediawiki:                                                *)
(*   - the CheckpointManager (checkpoint.go): the in-memory snapshot, the  *)
(*     dirty flag, the since-last-flush counter, the mutex, the background *)
(*     autoSave goroutine, and the two files a flush touches (the temp     *)
(*     sibling and the real checkpoint file), with process crashes;        *)
(*   - the time codec (parseTime / formatTime / TimeValue JSON methods).   *)
(* Every function of the manager is a sequence of steps, one per statement *)
(* that reads or writes shared state or the file system, so that other     *)
(* goroutines and a crash can interleave exactly where they can in Go.     *)
(***************************************************************************)
EXTENDS Integers, Sequences, FiniteSets, TLC

(***************************************************************************)
(* Bounds of the model.                                                    *)
(***************************************************************************)
\* TotalItems is capped: no update starts once the snapshot counts MaxItems.
MaxItems == 2
\* config.ItemsThreshold is drawn from 1..MaxThreshold.
MaxThreshold == 3
\* Positions passed to UpdateProgressAndMaybeSave are drawn from 1..MaxPosition.
MaxPosition == 2
\* Number of goroutines of the caller that use the manager.
NumWorkers == 2

Workers == 1..NumWorkers
\* The goroutine started by `go cm.autoSave()`.
Bg == 0
Threads == Workers \cup {Bg}
Positions == 1..MaxPosition
\* The item at each position: callers pass a position together with its item's id.
ItemIDAt(position) == IF position = 1 THEN "item1" ELSE "item2"
ItemIDs == {ItemIDAt(p) : p \in Positions}
Thresholds == 1..MaxThreshold
\* Values time.Now() returns (the zero time.Time is ZeroTime).
ZeroTime == 0
Times == {1}
\* The mutex is unlocked.
Free == -1

VARIABLES
  file,                      \* content of config.CheckpointFile
  tmp,                       \* content of config.CheckpointFile + ".tmp"
  mgr,                       \* "none" | "alive" | "panicked"
  ItemsThreshold,            \* config.ItemsThreshold
  currentCheckpoint,         \* cm.currentCheckpoint
  itemsSinceLastCheckpoint,  \* cm.itemsSinceLastCheckpoint
  dirty,                     \* cm.dirty
  mu,                        \* cm.mu: Free or the goroutine holding it
  pc,                        \* position of each goroutine
  op,                        \* the public operation each goroutine is in
  arg,                       \* arguments of the running UpdateProgressAndMaybeSave
  data,                      \* save's local `data` (the marshalled snapshot)
  err,                       \* the error the running call is about to return
  entry,                     \* history: counter, dirty flag and file when the call took the lock
  wrote,                     \* history: the running call has renamed the temp file
  failed,                    \* history: a flush of this manager has failed
  pendingFail,               \* history: a flush failed and none has succeeded since
  committed,                 \* history: snapshot fields after the last update that took the lock
  closed,                    \* history: Close has returned
  lastCrash,                 \* history: where the lock holder was at the last crash
  wire,                      \* time codec: the JSON time payload given to UnmarshalJSON
  tv,                        \* time codec: the result of decoding wire
  enc,                       \* time codec: the result of encoding tv
  tv2,                       \* time codec: the result of decoding enc
  src,                       \* codecs: the Go value given to an encoder
  doc,                       \* codecs: the wire form given to a decoder
  decoded,                   \* codecs: the result of decoding doc
  holding,                   \* pipeline: the position each worker is processing (0: none)
  dispatched                 \* pipeline: the number of positions the producer has handed out

cpVars == <<file, tmp, mgr, ItemsThreshold, currentCheckpoint, itemsSinceLastCheckpoint,
            dirty, mu, pc, op, arg, data, err, entry, wrote, failed, pendingFail,
            committed, closed, lastCrash>>
codecVars == <<wire, tv, enc, tv2, src, doc, decoded>>
dispatchVars == <<holding, dispatched>>
vars == <<cpVars, codecVars, dispatchVars>>

(***************************************************************************)
(* Files.  A file is absent, holds bytes that are not a JSON document      *)
(* (corrupt; a truncated write is of this kind and is kept apart as        *)
(* partial), or holds the JSON object json.MarshalIndent produced.         *)
(***************************************************************************)
AbsentFile == [kind |-> "absent"]
CorruptFile == [kind |-> "corrupt"]
PartialFile == [kind |-> "partial"]

\* &Checkpoint{}: the zero value.
ZeroCheckpoint ==
  [TotalItems |-> 0, SaveTimestamp |-> ZeroTime, LastItemID |-> "", ProcessedPosition |-> 0]

\* cm.currentCheckpoint of a manager that was never built (nil).
NilCheckpoint == [nil |-> TRUE]

\* json.MarshalIndent(cm.currentCheckpoint, "", "  "): the struct tags name the keys.
Marshal(c) ==
  [kind |-> "json",
   total_items |-> c.TotalItems,
   timestamp |-> c.SaveTimestamp,
   last_item_id |-> c.LastItemID,
   position |-> c.ProcessedPosition]

\* json.Unmarshal(data, checkpoint) on a JSON document written by Marshal.
Unmarshal(j) ==
  [TotalItems |-> j.total_items,
   SaveTimestamp |-> j.timestamp,
   LastItemID |-> j.last_item_id,
   ProcessedPosition |-> j.position]

\* Mutant of loadCheckpoint: the error of os.ReadFile is wrapped, which hides
\* that the file does not exist.
loadCheckpointWrapped(f) ==
  CASE f.kind = "json" -> [err |-> "nil", checkpoint |-> Unmarshal(f)]
    [] f.kind = "absent" -> [err |-> "read checkpoint", checkpoint |-> NilCheckpoint]
    [] OTHER -> [err |-> "unmarshal checkpoint", checkpoint |-> NilCheckpoint]

\* loadCheckpoint: os.ReadFile, then json.Unmarshal.
loadCheckpoint(f) ==
  CASE f.kind = "absent" -> [err |-> "notexist", checkpoint |-> NilCheckpoint]
    [] f.kind = "json" -> [err |-> "nil", checkpoint |-> Unmarshal(f)]
    [] OTHER -> [err |-> "unmarshal checkpoint", checkpoint |-> NilCheckpoint]

\* A step of the time codec that has not run.
NotRun == [kind |-> "notrun"]

NoArg == [position |-> 0, itemID |-> ""]
NoEntry == [count |-> 0, dirty |-> FALSE, file |-> AbsentFile]
\* The three fields of a snapshot the caller supplies or counts.
Fields(c) == <<c.TotalItems, c.LastItemID, c.ProcessedPosition>>
JSONFields(j) == <<j.total_items, j.last_item_id, j.position>>

Init ==
  /\ file \in {AbsentFile, CorruptFile}
  /\ tmp = AbsentFile
  /\ mgr = "none"
  /\ ItemsThreshold \in Thresholds
  /\ currentCheckpoint = NilCheckpoint
  /\ itemsSinceLastCheckpoint = 0
  /\ dirty = FALSE
  /\ mu = Free
  /\ pc = [t \in Threads |-> IF t = Bg THEN "off" ELSE "idle"]
  /\ op = [t \in Threads |-> "none"]
  /\ arg = [t \in Threads |-> NoArg]
  /\ data = [t \in Threads |-> AbsentFile]
  /\ err = [t \in Threads |-> "nil"]
  /\ entry = [t \in Threads |-> NoEntry]
  /\ wrote = [t \in Threads |-> FALSE]
  /\ failed = FALSE
  /\ pendingFail = FALSE
  /\ committed = Fields(ZeroCheckpoint)
  /\ closed = FALSE
  /\ lastCrash = "none"
  /\ wire = NotRun
  /\ tv = NotRun
  /\ enc = NotRun
  /\ tv2 = NotRun
  /\ src = NotRun
  /\ doc = NotRun
  /\ decoded = NotRun
  /\ holding = [t \in Workers |-> 0]
  /\ dispatched = 0


(***************************************************************************)
(* Construction and crash.                                                 *)
(***************************************************************************)
historyReset ==
  /\ entry' = [t \in Threads |-> NoEntry]
  /\ wrote' = [t \in Threads |-> FALSE]
  /\ failed' = FALSE
  /\ pendingFail' = FALSE
  /\ closed' = FALSE

\* Mutant of IsNotExist: every load error is taken for a missing file.
IsAnyError(e) == e # "nil"

\* os.IsNotExist(err)
IsNotExist(e) == e = "notexist"

\* NewCheckpointManagerWithConfig (NewCheckpointManager is the same code with
\* the package's default configuration): load, then start autoSave.
NewCheckpointManagerWithConfig ==
  /\ mgr = "none"
  /\ LET r == loadCheckpoint(file) IN
       IF r.err # "nil" /\ ~IsNotExist(r.err)
       THEN \* panic(fmt.Sprintf("Failed to load checkpoint: %v", err))
            /\ mgr' = "panicked"
            /\ currentCheckpoint' = r.checkpoint
            /\ pc' = pc
       ELSE /\ mgr' = "alive"
            /\ currentCheckpoint' = IF r.err # "nil" THEN ZeroCheckpoint ELSE r.checkpoint
            \* go cm.autoSave()
            /\ pc' = [pc EXCEPT ![Bg] = "bg_wait"]
  /\ committed' = IF currentCheckpoint' = NilCheckpoint
                  THEN Fields(ZeroCheckpoint) ELSE Fields(currentCheckpoint')
  /\ historyReset
  /\ UNCHANGED <<file, tmp, ItemsThreshold, itemsSinceLastCheckpoint, dirty, mu, op, arg,
                 data, err, lastCrash, codecVars, dispatchVars>>

\* The process dies: memory and goroutines are gone, the files stay.
Crash ==
  /\ mgr = "alive"
  /\ mgr' = "none"
  /\ lastCrash' = IF mu = Free THEN "unlocked" ELSE pc[mu]
  /\ currentCheckpoint' = NilCheckpoint
  /\ itemsSinceLastCheckpoint' = 0
  /\ dirty' = FALSE
  /\ mu' = Free
  /\ pc' = [t \in Threads |-> IF t = Bg THEN "off" ELSE "idle"]
  /\ op' = [t \in Threads |-> "none"]
  /\ arg' = [t \in Threads |-> NoArg]
  /\ data' = [t \in Threads |-> AbsentFile]
  /\ err' = [t \in Threads |-> "nil"]
  /\ committed' = Fields(ZeroCheckpoint)
  /\ historyReset
  /\ UNCHANGED <<file, tmp, ItemsThreshold, codecVars, dispatchVars>>

(***************************************************************************)
(* The mutex and the entry of the public operations.                       *)
(***************************************************************************)
\* Mutant of Lock: the call goes on without waiting for the mutex.
LockWithoutWaiting(t) ==
  /\ mu' = t

\* cm.mu.Lock(): blocks until the mutex is free.
Lock(t) ==
  /\ mu = Free
  /\ mu' = t

\* What the history records when goroutine t enters operation o.
enter(t, o) ==
  /\ op' = [op EXCEPT ![t] = o]
  /\ entry' = [entry EXCEPT ![t] = [count |-> itemsSinceLastCheckpoint,
                                     dirty |-> dirty, file |-> file]]
  /\ wrote' = [wrote EXCEPT ![t] = FALSE]
  /\ err' = [err EXCEPT ![t] = "nil"]

\* UpdateProgressAndMaybeSave(position, itemID): cm.mu.Lock()
UpdateProgressAndMaybeSave(t, position, itemID) ==
  /\ mgr = "alive"
  /\ pc[t] = "idle"
  /\ currentCheckpoint.TotalItems < MaxItems
  /\ Lock(t)
  /\ pc' = [pc EXCEPT ![t] = "upd_pos"]
  /\ arg' = [arg EXCEPT ![t] = [position |-> position, itemID |-> itemID]]
  /\ enter(t, "update")
  /\ committed' = <<committed[1] + 1, itemID, position>>
  /\ UNCHANGED <<file, tmp, mgr, ItemsThreshold, currentCheckpoint,
                 itemsSinceLastCheckpoint, dirty, data, failed, pendingFail, closed,
                 lastCrash, codecVars>>

\* Save(): cm.mu.Lock(), then save().  Close() is `return cm.Save()`.
Save(t, o) ==
  /\ mgr = "alive"
  /\ pc[t] = "idle"
  /\ Lock(t)
  /\ pc' = [pc EXCEPT ![t] = "save_check"]
  /\ enter(t, o)
  /\ UNCHANGED <<file, tmp, mgr, ItemsThreshold, currentCheckpoint,
                 itemsSinceLastCheckpoint, dirty, arg, data, failed, pendingFail,
                 committed, closed, lastCrash, codecVars, dispatchVars>>

Close(t) == Save(t, "close")

(***************************************************************************)
(* UpdateProgressAndMaybeSave, statement by statement (under the mutex).   *)
(***************************************************************************)
updFrame == UNCHANGED <<file, tmp, mgr, ItemsThreshold, mu, op, arg, data, err, entry,
                        wrote, failed, pendingFail, committed, closed, lastCrash,
                        codecVars, dispatchVars>>

\* cm.currentCheckpoint.ProcessedPosition = position
SetProcessedPosition(t) ==
  /\ pc[t] = "upd_pos"
  /\ currentCheckpoint' = [currentCheckpoint EXCEPT !.ProcessedPosition = arg[t].position]
  /\ pc' = [pc EXCEPT ![t] = "upd_id"]
  /\ UNCHANGED <<itemsSinceLastCheckpoint, dirty>>
  /\ updFrame

\* cm.currentCheckpoint.LastItemID = itemID
SetLastItemID(t) ==
  /\ pc[t] = "upd_id"
  /\ currentCheckpoint' = [currentCheckpoint EXCEPT !.LastItemID = arg[t].itemID]
  /\ pc' = [pc EXCEPT ![t] = "upd_total"]
  /\ UNCHANGED <<itemsSinceLastCheckpoint, dirty>>
  /\ updFrame

\* Mutant of IncTotalItems: the update does not count the item.
SkipTotalItems(t) ==
  /\ pc[t] = "upd_total"
  /\ pc' = [pc EXCEPT ![t] = "upd_count"]
  /\ UNCHANGED <<currentCheckpoint, itemsSinceLastCheckpoint, dirty>>
  /\ updFrame

\* cm.currentCheckpoint.TotalItems++
IncTotalItems(t) ==
  /\ pc[t] = "upd_total"
  /\ currentCheckpoint' = [currentCheckpoint EXCEPT !.TotalItems = @ + 1]
  /\ pc' = [pc EXCEPT ![t] = "upd_count"]
  /\ UNCHANGED <<itemsSinceLastCheckpoint, dirty>>
  /\ updFrame

\* cm.itemsSinceLastCheckpoint++
IncItemsSinceLastCheckpoint(t) ==
  /\ pc[t] = "upd_count"
  /\ itemsSinceLastCheckpoint' = itemsSinceLastCheckpoint + 1
  /\ pc' = [pc EXCEPT ![t] = "upd_dirty"]
  /\ UNCHANGED <<currentCheckpoint, dirty>>
  /\ updFrame

\* cm.dirty = true
SetDirty(t) ==
  /\ pc[t] = "upd_dirty"
  /\ dirty' = TRUE
  /\ pc' = [pc EXCEPT ![t] = "upd_check"]
  /\ UNCHANGED <<currentCheckpoint, itemsSinceLastCheckpoint>>
  /\ updFrame

\* Mutant of ThresholdReached: `>` written for `>=`.
ThresholdExceeded == itemsSinceLastCheckpoint > ItemsThreshold

\* The condition of `if cm.itemsSinceLastCheckpoint >= cm.config.ItemsThreshold`.
ThresholdReached == itemsSinceLastCheckpoint >= ItemsThreshold

\* if ... { return cm.save() }; return nil
CheckThreshold(t) ==
  /\ pc[t] = "upd_check"
  /\ pc' = [pc EXCEPT ![t] = IF ThresholdReached THEN "save_check" ELSE "ret"]
  /\ UNCHANGED <<currentCheckpoint, itemsSinceLastCheckpoint, dirty>>
  /\ updFrame


(***************************************************************************)
(* save(), statement by statement (the caller holds the mutex).            *)
(***************************************************************************)
saveFrame == UNCHANGED <<mgr, ItemsThreshold, mu, op, arg, entry, committed, closed,
                         lastCrash, codecVars, dispatchVars>>

\* Mutant of CheckDirty: save also returns early below the threshold.
CheckDirtyAndThreshold(t) ==
  /\ pc[t] = "save_check"
  /\ pc' = [pc EXCEPT ![t] = IF dirty /\ itemsSinceLastCheckpoint >= ItemsThreshold
                              THEN "save_stamp" ELSE "ret"]
  /\ UNCHANGED <<file, tmp, currentCheckpoint, itemsSinceLastCheckpoint, dirty, data, err,
                 wrote, failed, pendingFail>>
  /\ saveFrame

\* if !cm.dirty { return nil }
CheckDirty(t) ==
  /\ pc[t] = "save_check"
  /\ pc' = [pc EXCEPT ![t] = IF dirty THEN "save_stamp" ELSE "ret"]
  /\ UNCHANGED <<file, tmp, currentCheckpoint, itemsSinceLastCheckpoint, dirty, data, err,
                 wrote, failed, pendingFail>>
  /\ saveFrame

\* Mutant of StampAndMarshal: the counter and the dirty flag are reset before
\* the write instead of after the rename.
StampMarshalAndReset(t) ==
  /\ pc[t] = "save_stamp"
  /\ \E now \in Times :
       currentCheckpoint' = [currentCheckpoint EXCEPT !.SaveTimestamp = now]
  /\ data' = [data EXCEPT ![t] = Marshal(currentCheckpoint')]
  /\ itemsSinceLastCheckpoint' = 0
  /\ dirty' = FALSE
  /\ pc' = [pc EXCEPT ![t] = "save_write"]
  /\ UNCHANGED <<file, tmp, err, wrote, failed, pendingFail>>
  /\ saveFrame

\* cm.currentCheckpoint.SaveTimestamp = time.Now(); data, err := json.MarshalIndent(...)
\* (marshalling a Checkpoint cannot fail).
StampAndMarshal(t) ==
  /\ pc[t] = "save_stamp"
  /\ \E now \in Times :
       currentCheckpoint' = [currentCheckpoint EXCEPT !.SaveTimestamp = now]
  /\ data' = [data EXCEPT ![t] = Marshal(currentCheckpoint')]
  /\ pc' = [pc EXCEPT ![t] = "save_write"]
  /\ UNCHANGED <<file, tmp, itemsSinceLastCheckpoint, dirty, err, wrote, failed,
                 pendingFail>>
  /\ saveFrame

\* save returns the error e: nothing after the failing statement runs.
fail(t, e) ==
  /\ err' = [err EXCEPT ![t] = e]
  /\ pc' = [pc EXCEPT ![t] = "ret"]
  /\ data' = [data EXCEPT ![t] = AbsentFile]
  /\ failed' = TRUE
  /\ pendingFail' = TRUE

\* Mutant of WriteFileOpen: the snapshot is written over the checkpoint file itself.
WriteFileOpenInPlace(t) ==
  /\ pc[t] = "save_write"
  /\ file' = PartialFile
  /\ pc' = [pc EXCEPT ![t] = "save_write_data"]
  /\ UNCHANGED <<tmp, currentCheckpoint, itemsSinceLastCheckpoint, dirty, data, err,
                 wrote, failed, pendingFail>>
  /\ saveFrame

\* os.WriteFile(tempFile, data, 0644), first half: the file is created or truncated.
WriteFileOpen(t) ==
  /\ pc[t] = "save_write"
  /\ tmp' = PartialFile
  /\ pc' = [pc EXCEPT ![t] = "save_write_data"]
  /\ UNCHANGED <<file, currentCheckpoint, itemsSinceLastCheckpoint, dirty, data, err,
                 wrote, failed, pendingFail>>
  /\ saveFrame

\* os.WriteFile fails to open the temp file.
WriteFileOpenFails(t) ==
  /\ pc[t] = "save_write"
  /\ fail(t, "write checkpoint")
  /\ UNCHANGED <<file, tmp, currentCheckpoint, itemsSinceLastCheckpoint, dirty, wrote>>
  /\ saveFrame

\* os.WriteFile, second half: the bytes are written.
WriteFileData(t) ==
  /\ pc[t] = "save_write_data"
  /\ tmp' = data[t]
  /\ pc' = [pc EXCEPT ![t] = "save_rename"]
  /\ UNCHANGED <<file, currentCheckpoint, itemsSinceLastCheckpoint, dirty, data, err,
                 wrote, failed, pendingFail>>
  /\ saveFrame

\* os.WriteFile fails while writing: the temp file stays truncated.
WriteFileDataFails(t) ==
  /\ pc[t] = "save_write_data"
  /\ fail(t, "write checkpoint")
  /\ UNCHANGED <<file, tmp, currentCheckpoint, itemsSinceLastCheckpoint, dirty, wrote>>
  /\ saveFrame

\* Mutant of Rename: the rename does nothing and its error is dropped.
RenameDropped(t) ==
  /\ pc[t] = "save_rename"
  /\ wrote' = [wrote EXCEPT ![t] = TRUE]
  /\ data' = [data EXCEPT ![t] = AbsentFile]
  /\ pc' = [pc EXCEPT ![t] = "save_reset"]
  /\ pendingFail' = FALSE
  /\ UNCHANGED <<file, tmp, currentCheckpoint, itemsSinceLastCheckpoint, dirty, err, failed>>
  /\ saveFrame

\* os.Rename(tempFile, cm.config.CheckpointFile): atomic replacement.
Rename(t) ==
  /\ pc[t] = "save_rename"
  /\ file' = tmp
  /\ tmp' = AbsentFile
  /\ wrote' = [wrote EXCEPT ![t] = TRUE]
  /\ data' = [data EXCEPT ![t] = AbsentFile]
  /\ pc' = [pc EXCEPT ![t] = "save_reset"]
  /\ pendingFail' = FALSE
  /\ UNCHANGED <<currentCheckpoint, itemsSinceLastCheckpoint, dirty, err, failed>>
  /\ saveFrame

\* os.Rename fails: both files stay as they are.
RenameFails(t) ==
  /\ pc[t] = "save_rename"
  /\ fail(t, "rename checkpoint file")
  /\ UNCHANGED <<file, tmp, currentCheckpoint, itemsSinceLastCheckpoint, dirty, wrote>>
  /\ saveFrame

\* Mutant of ResetItemsSinceLastCheckpoint: the counter is left as it is.
KeepItemsSinceLastCheckpoint(t) ==
  /\ pc[t] = "save_reset"
  /\ pc' = [pc EXCEPT ![t] = "save_clean"]
  /\ UNCHANGED <<file, tmp, currentCheckpoint, itemsSinceLastCheckpoint, dirty, data, err,
                 wrote, failed, pendingFail>>
  /\ saveFrame

\* cm.itemsSinceLastCheckpoint = 0
ResetItemsSinceLastCheckpoint(t) ==
  /\ pc[t] = "save_reset"
  /\ itemsSinceLastCheckpoint' = 0
  /\ pc' = [pc EXCEPT ![t] = "save_clean"]
  /\ UNCHANGED <<file, tmp, currentCheckpoint, dirty, data, err, wrote, failed,
                 pendingFail>>
  /\ saveFrame

\* cm.dirty = false; return nil
ClearDirty(t) ==
  /\ pc[t] = "save_clean"
  /\ dirty' = FALSE
  /\ pc' = [pc EXCEPT ![t] = "ret"]
  /\ UNCHANGED <<file, tmp, currentCheckpoint, itemsSinceLastCheckpoint, data, err, wrote,
                 failed, pendingFail>>
  /\ saveFrame

(***************************************************************************)
(* Return of a public operation and the autoSave goroutine.                *)
(***************************************************************************)
\* cm.mu.Unlock() (deferred).
Unlock(t) ==
  /\ mu = t
  /\ mu' = Free

\* The deferred Unlock runs and the call returns err[t]; autoSave prints a
\* failure and goes on to wait for the next tick.
Return(t) ==
  /\ pc[t] = "ret"
  /\ Unlock(t)
  /\ pc' = [pc EXCEPT ![t] = IF t = Bg THEN "bg_wait" ELSE "idle"]
  /\ op' = [op EXCEPT ![t] = "none"]
  /\ arg' = [arg EXCEPT ![t] = NoArg]
  /\ err' = [err EXCEPT ![t] = "nil"]
  /\ entry' = [entry EXCEPT ![t] = NoEntry]
  /\ wrote' = [wrote EXCEPT ![t] = FALSE]
  /\ closed' = (closed \/ op[t] = "close")
  /\ UNCHANGED <<file, tmp, mgr, ItemsThreshold, currentCheckpoint,
                 itemsSinceLastCheckpoint, dirty, data, failed, pendingFail, committed,
                 lastCrash, codecVars, dispatchVars>>

\* Mutant of Tick: the test of the dirty flag is inverted.
TickIfClean ==
  /\ pc[Bg] = "bg_wait"
  /\ pc' = [pc EXCEPT ![Bg] = IF ~dirty THEN "bg_call" ELSE "bg_wait"]
  /\ UNCHANGED <<file, tmp, mgr, ItemsThreshold, currentCheckpoint,
                 itemsSinceLastCheckpoint, dirty, mu, op, arg, data, err, entry, wrote,
                 failed, pendingFail, committed, closed, lastCrash, codecVars, dispatchVars>>

\* autoSave: `for range ticker.C { if cm.dirty {` - the flag is read without the mutex.
Tick ==
  /\ pc[Bg] = "bg_wait"
  /\ pc' = [pc EXCEPT ![Bg] = IF dirty THEN "bg_call" ELSE "bg_wait"]
  /\ UNCHANGED <<file, tmp, mgr, ItemsThreshold, currentCheckpoint,
                 itemsSinceLastCheckpoint, dirty, mu, op, arg, data, err, entry, wrote,
                 failed, pendingFail, committed, closed, lastCrash, codecVars, dispatchVars>>

\* autoSave: `cm.Save()`.
autoSave ==
  /\ mgr = "alive"
  /\ pc[Bg] = "bg_call"
  /\ Lock(Bg)
  /\ pc' = [pc EXCEPT ![Bg] = "save_check"]
  /\ enter(Bg, "tick")
  /\ UNCHANGED <<file, tmp, mgr, ItemsThreshold, currentCheckpoint,
                 itemsSinceLastCheckpoint, dirty, arg, data, failed, pendingFail,
                 committed, closed, lastCrash, codecVars, dispatchVars>>

Next ==
  \/ NewCheckpointManagerWithConfig
  \/ Crash
  \/ \E t \in Workers, position \in Positions :
       UpdateProgressAndMaybeSave(t, position, ItemIDAt(position)) /\ UNCHANGED dispatchVars
  \/ \E t \in Workers : Save(t, "save")
  \/ \E t \in Workers : Close(t)
  \/ \E t \in Workers : SetProcessedPosition(t)
  \/ \E t \in Workers : SetLastItemID(t)
  \/ \E t \in Workers : IncTotalItems(t)
  \/ \E t \in Workers : IncItemsSinceLastCheckpoint(t)
  \/ \E t \in Workers : SetDirty(t)
  \/ \E t \in Workers : CheckThreshold(t)
  \/ \E t \in Threads : CheckDirty(t)
  \/ \E t \in Threads : StampAndMarshal(t)
  \/ \E t \in Threads : WriteFileOpen(t)
  \/ \E t \in Threads : WriteFileOpenFails(t)
  \/ \E t \in Threads : WriteFileData(t)
  \/ \E t \in Threads : WriteFileDataFails(t)
  \/ \E t \in Threads : Rename(t)
  \/ \E t \in Threads : RenameFails(t)
  \/ \E t \in Threads : ResetItemsSinceLastCheckpoint(t)
  \/ \E t \in Threads : ClearDirty(t)
  \/ \E t \in Threads : Return(t)
  \/ Tick
  \/ autoSave

Spec == Init /\ [][Next]_vars


\* The steps of a running call that are not file-system operations.
Progress(t) ==
  \/ SetProcessedPosition(t) \/ SetLastItemID(t) \/ IncTotalItems(t)
  \/ IncItemsSinceLastCheckpoint(t) \/ SetDirty(t) \/ CheckThreshold(t)
  \/ CheckDirty(t) \/ StampAndMarshal(t) \/ ResetItemsSinceLastCheckpoint(t)
  \/ ClearDirty(t) \/ Return(t)

\* The manager without crashes of the process.
NextNoCrash ==
  \/ NewCheckpointManagerWithConfig
  \/ \E t \in Workers, position \in Positions :
       UpdateProgressAndMaybeSave(t, position, ItemIDAt(position)) /\ UNCHANGED dispatchVars
  \/ \E t \in Workers : Save(t, "save")
  \/ \E t \in Workers : Close(t)
  \/ \E t \in Threads : Progress(t)
  \/ \E t \in Threads : WriteFileOpen(t)
  \/ \E t \in Threads : WriteFileOpenFails(t)
  \/ \E t \in Threads : WriteFileData(t)
  \/ \E t \in Threads : WriteFileDataFails(t)
  \/ \E t \in Threads : Rename(t)
  \/ \E t \in Threads : RenameFails(t)
  \/ Tick
  \/ autoSave

\* The Go scheduler runs every runnable goroutine, the ticker keeps firing, a
\* goroutine waiting for the mutex gets it (sync.Mutex hands a starving waiter
\* the lock), and the file system does not fail for ever.
LiveSpec ==
  /\ Init
  /\ [][NextNoCrash]_vars
  /\ WF_vars(Tick)
  /\ SF_vars(autoSave)
  /\ WF_vars(\E t \in Threads : Progress(t))
  /\ SF_vars(\E t \in Threads : WriteFileOpen(t))
  /\ SF_vars(\E t \in Threads : WriteFileData(t))
  /\ SF_vars(\E t \in Threads : Rename(t))

(***************************************************************************)
(* The pipeline the Checkpoint type is documented for: one producer hands  *)
(* the positions 1, 2, ... out in order (a FIFO channel), each of the      *)
(* workers takes one position at a time, processes it and reports it with  *)
(* UpdateProgressAndMaybeSave exactly once.  The background goroutine and  *)
(* the flushes run as in the manager; the process starts on no file and    *)
(* does not crash.                                                         *)
(***************************************************************************)
\* Positions handed out: one more than the updates the model lets run.
NumPositions == MaxItems + 1

DispatchInit ==
  /\ Init
  /\ file = AbsentFile

\* Worker t receives the next position from the channel.
Dispatch(t) ==
  /\ mgr = "alive"
  /\ pc[t] = "idle"
  /\ holding[t] = 0
  /\ dispatched < NumPositions
  /\ dispatched' = dispatched + 1
  /\ holding' = [holding EXCEPT ![t] = dispatched + 1]
  /\ UNCHANGED <<cpVars, codecVars>>

\* Worker t has processed its position and reports it.
Report(t) ==
  /\ holding[t] # 0
  /\ UpdateProgressAndMaybeSave(t, holding[t], ItemIDAt(holding[t]))
  /\ holding' = [holding EXCEPT ![t] = 0]
  /\ UNCHANGED dispatched

DispatchNext ==
  \/ NewCheckpointManagerWithConfig
  \/ \E t \in Workers : Dispatch(t)
  \/ \E t \in Workers : Report(t)
  \/ \E t \in Threads : Progress(t)
  \/ \E t \in Threads : WriteFileOpen(t)
  \/ \E t \in Threads : WriteFileOpenFails(t)
  \/ \E t \in Threads : WriteFileData(t)
  \/ \E t \in Threads : WriteFileDataFails(t)
  \/ \E t \in Threads : Rename(t)
  \/ \E t \in Threads : RenameFails(t)
  \/ Tick
  \/ autoSave

DispatchSpec == DispatchInit /\ [][DispatchNext]_vars

(***************************************************************************)
(* The time codec.  A wire timestamp that matches timeRegex                *)
(*   ^([+-]\d{4,})-(\d{2})-(\d{2})T(\d{2}):(\d{2}):(\d{2})Z$               *)
(* is the record of its sign, the digits of its year and its five          *)
(* two-digit fields (each two-digit text is the number 0..99 it spells and *)
(* %02d spells it back); any other text is Garbage.  A time.Time in UTC is *)
(* the record of its civil fields.                                         *)
(***************************************************************************)
\* TimePrecision: BillionYears = 0 ... Second = 14.
Year == 9
Month == 10
Day == 11
Second == 14
Precisions == 0..Second
\* CalendarModel
Gregorian == 0
Julian == 1

\* Inputs of the codec.
YearTexts == {<<0, 0, 0, 0>>, <<0, 0, 0, 1>>, <<0, 0, 0, 4>>, <<0, 0, 4, 4>>,
              <<0, 0, 0, 0, 0>>, <<0, 0, 0, 0, 1>>, <<1, 0, 0, 0, 0>>}
MonthTexts == {0, 1, 2, 12, 13}
DayTexts == {0, 1, 29, 31, 32}
HourTexts == {0, 23, 24}
MinuteTexts == {0, 60}
SecondTexts == {0, 59}
Garbage == [kind |-> "garbage"]
TimeTexts ==
  [kind : {"timestamp"}, sign : {"+", "-"}, year : YearTexts, month : MonthTexts,
   day : DayTexts, hour : HourTexts, minute : MinuteTexts, second : SecondTexts]
    \cup {Garbage}
CalendarURIs == {"https://www.wikidata.org/wiki/Q1985727",
                 "http://www.wikidata.org/entity/Q1985727",
                 "https://www.wikidata.org/wiki/Q1985786",
                 "http://www.wikidata.org/entity/Q1985786",
                 "http://www.wikidata.org/entity/Q12138"}
TimePayloads == [time : TimeTexts, precision : Precisions, calendarmodel : CalendarURIs]

\* strconv.ParseInt of a run of decimal digits (without the sign).
RECURSIVE digitsValue(_)
digitsValue(ds) ==
  IF ds = <<>> THEN 0 ELSE 10 * digitsValue(SubSeq(ds, 1, Len(ds) - 1)) + ds[Len(ds)]

\* The decimal digits of n >= 0, as %d prints them.
RECURSIVE decimal(_)
decimal(n) == IF n < 10 THEN <<n>> ELSE Append(decimal(n \div 10), n % 10)

\* %+05d pads with zeros to five characters, sign included.
RECURSIVE padTo4(_)
padTo4(ds) == IF Len(ds) >= 4 THEN ds ELSE padTo4(<<0>> \o ds)

\* time.isLeap
isLeap(year) == year % 4 = 0 /\ (year % 100 # 0 \/ year % 400 = 0)

\* Days of a month (time.daysIn).
daysIn(month, year) ==
  IF month = 2 THEN (IF isLeap(year) THEN 29 ELSE 28)
  ELSE IF month \in {4, 6, 9, 11} THEN 30 ELSE 31

\* Day `day` (>= 1, possibly past the end) of the month, as a date.
RECURSIVE rollDays(_, _, _)
rollDays(year, month, day) ==
  IF day <= daysIn(month, year)
  THEN [year |-> year, month |-> month, day |-> day]
  ELSE IF month = 12
       THEN rollDays(year + 1, 1, day - daysIn(month, year))
       ELSE rollDays(year, month + 1, day - daysIn(month, year))

\* time.Date(year, month, day, hour, min, sec, 0, time.UTC): values outside
\* their usual ranges are normalised (month >= 1 and day >= 1 here).
Date(year, month, day, hour, min, sec) ==
  LET m0 == month - 1
      y1 == year + (m0 \div 12)
      m1 == (m0 % 12) + 1
      secs == sec + 60 * min + 3600 * hour
      d == rollDays(y1, m1, day + (secs \div 86400))
      rest == secs % 86400
  IN [year |-> d.year, month |-> d.month, day |-> d.day,
      hour |-> rest \div 3600, minute |-> (rest % 3600) \div 60, second |-> rest % 60]

\* time.Time{}
ZeroDate == [year |-> 1, month |-> 1, day |-> 1, hour |-> 0, minute |-> 0, second |-> 0]

\* Mutant of parseTime: year 0 is taken for astronomical year 0.
parseTimeYearZero(t) ==
  IF t.kind # "timestamp"
  THEN [err |-> "unable to parse time", time |-> ZeroDate]
  ELSE LET parsed == (IF t.sign = "-" THEN -1 ELSE 1) * digitsValue(t.year)
           year == IF parsed < 0 THEN parsed + 1 ELSE parsed
           month == IF t.month = 0 THEN 1 ELSE t.month
           day == IF t.day = 0 THEN 1 ELSE t.day
       IN [err |-> "nil", time |-> Date(year, month, day, t.hour, t.minute, t.second)]

\* parseTime
parseTime(t) ==
  IF t.kind # "timestamp"
  THEN [err |-> "unable to parse time", time |-> ZeroDate]
  ELSE LET parsed == (IF t.sign = "-" THEN -1 ELSE 1) * digitsValue(t.year)
           year == IF parsed < 0 THEN parsed + 1 ELSE parsed
           month == IF t.month = 0 THEN 1 ELSE t.month
           day == IF t.day = 0 THEN 1 ELSE t.day
       IN IF parsed = 0
          THEN [err |-> "year cannot be 0", time |-> ZeroDate]
          ELSE [err |-> "nil",
                time |-> Date(year, month, day, t.hour, t.minute, t.second)]

\* Mutant of formatTime: the year is printed in astronomical numbering.
formatTimeAstronomical(t, p) ==
  LET month == IF p < Month THEN 0 ELSE t.month
      day == IF p < Day THEN 0 ELSE t.day
  IN [kind |-> "timestamp",
      sign |-> IF t.year < 0 THEN "-" ELSE "+",
      year |-> padTo4(decimal(IF t.year < 0 THEN -t.year ELSE t.year)),
      month |-> month, day |-> day,
      hour |-> t.hour, minute |-> t.minute, second |-> t.second]

\* formatTime
formatTime(t, p) ==
  LET year == IF t.year < 1 THEN t.year - 1 ELSE t.year
      month == IF p < Month THEN 0 ELSE t.month
      day == IF p < Day THEN 0 ELSE t.day
  IN [kind |-> "timestamp",
      sign |-> IF year < 0 THEN "-" ELSE "+",
      year |-> padTo4(decimal(IF year < 0 THEN -year ELSE year)),
      month |-> month, day |-> day,
      hour |-> t.hour, minute |-> t.minute, second |-> t.second]

(***************************************************************************)
(* The closed enumerations.  A value of an enumeration is named by its Go  *)
(* identifier.  The text of an error made by errors.Errorf is the sequence *)
(* of its pieces: the constant parts of the format and the arguments.      *)
(***************************************************************************)
\* A decode that succeeded with value v.
Decoded(v) == [err |-> "nil", value |-> v, text |-> <<>>]

\* errors.Errorf("<what>: %s", s); the destination keeps its zero value.
Unknown(what, s, zero) == [err |-> what, value |-> zero, text |-> <<what, ": ", s>>]

\* EntityType.UnmarshalJSON
EntityTypeUnmarshalJSON(s) ==
  CASE s = "item" -> Decoded("Item")
    [] s = "property" -> Decoded("Property")
    [] OTHER -> Unknown("unknown entity type", s, "Item")

\* WikiBaseEntityType.MarshalJSON
WikiBaseEntityTypeMarshalJSON(t) ==
  CASE t = "ItemType" -> "item"
    [] t = "PropertyType" -> "property"
    [] t = "LexemeType" -> "lexeme"
    [] t = "FormType" -> "form"
    [] t = "SenseType" -> "sense"
    [] OTHER -> ""

\* WikiBaseEntityType.UnmarshalJSON
WikiBaseEntityTypeUnmarshalJSON(s) ==
  CASE s = "item" -> Decoded("ItemType")
    [] s = "property" -> Decoded("PropertyType")
    [] s = "lexeme" -> Decoded("LexemeType")
    [] s = "form" -> Decoded("FormType")
    [] s = "sense" -> Decoded("SenseType")
    [] OTHER -> Unknown("unknown wikibase entity type", s, "ItemType")

\* StatementType.UnmarshalJSON
StatementTypeUnmarshalJSON(s) ==
  CASE s = "statement" -> Decoded("StatementT")
    [] OTHER -> Unknown("unknown statement type", s, "StatementT")

\* StatementRank.UnmarshalJSON
StatementRankUnmarshalJSON(s) ==
  CASE s = "preferred" -> Decoded("Preferred")
    [] s = "normal" -> Decoded("Normal")
    [] s = "deprecated" -> Decoded("Deprecated")
    [] OTHER -> Unknown("unknown statement rank", s, "Preferred")

\* SnakType.UnmarshalJSON
SnakTypeUnmarshalJSON(s) ==
  CASE s = "value" -> Decoded("Value")
    [] s = "somevalue" -> Decoded("SomeValue")
    [] s = "novalue" -> Decoded("NoValue")
    [] OTHER -> Unknown("unknown snak type", s, "Value")

\* Mutant of DataTypeUnmarshalJSON: the switch has no default case, so an
\* unknown token leaves the zero value WikiBaseItem and no error.
DataTypeUnmarshalJSONNoDefault(s) ==
  CASE s = "wikibase-item" -> Decoded("WikiBaseItem")
    [] s = "external-id" -> Decoded("ExternalID")
    [] s = "string" -> Decoded("String")
    [] s = "quantity" -> Decoded("Quantity")
    [] s = "time" -> Decoded("Time")
    [] s = "globe-coordinate" -> Decoded("GlobeCoordinate")
    [] s = "commonsMedia" -> Decoded("CommonsMedia")
    [] s = "monolingualtext" -> Decoded("MonolingualText")
    [] s = "url" -> Decoded("URL")
    [] s = "geo-shape" -> Decoded("GeoShape")
    [] s = "wikibase-lexeme" -> Decoded("WikiBaseLexeme")
    [] s = "wikibase-sense" -> Decoded("WikiBaseSense")
    [] s = "wikibase-property" -> Decoded("WikiBaseProperty")
    [] s = "math" -> Decoded("Math")
    [] s = "musical-notation" -> Decoded("MusicalNotation")
    [] s = "wikibase-form" -> Decoded("WikiBaseForm")
    [] s = "tabular-data" -> Decoded("TabularData")
    [] OTHER -> Decoded("WikiBaseItem")

\* DataType.UnmarshalJSON
DataTypeUnmarshalJSON(s) ==
  CASE s = "wikibase-item" -> Decoded("WikiBaseItem")
    [] s = "external-id" -> Decoded("ExternalID")
    [] s = "string" -> Decoded("String")
    [] s = "quantity" -> Decoded("Quantity")
    [] s = "time" -> Decoded("Time")
    [] s = "globe-coordinate" -> Decoded("GlobeCoordinate")
    [] s = "commonsMedia" -> Decoded("CommonsMedia")
    [] s = "monolingualtext" -> Decoded("MonolingualText")
    [] s = "url" -> Decoded("URL")
    [] s = "geo-shape" -> Decoded("GeoShape")
    [] s = "wikibase-lexeme" -> Decoded("WikiBaseLexeme")
    [] s = "wikibase-sense" -> Decoded("WikiBaseSense")
    [] s = "wikibase-property" -> Decoded("WikiBaseProperty")
    [] s = "math" -> Decoded("Math")
    [] s = "musical-notation" -> Decoded("MusicalNotation")
    [] s = "wikibase-form" -> Decoded("WikiBaseForm")
    [] s = "tabular-data" -> Decoded("TabularData")
    [] OTHER -> Unknown("unknown data type", s, "WikiBaseItem")

\* CalendarModel.UnmarshalJSON
CalendarModelUnmarshalJSON(s) ==
  CASE s = "https://www.wikidata.org/wiki/Q1985727" -> Decoded(Gregorian)
    [] s = "http://www.wikidata.org/entity/Q1985727" -> Decoded(Gregorian)
    [] s = "https://www.wikidata.org/wiki/Q1985786" -> Decoded(Julian)
    [] s = "http://www.wikidata.org/entity/Q1985786" -> Decoded(Julian)
    [] OTHER -> Unknown("unknown calendar model", s, Gregorian)

\* Mutant of CalendarModelMarshalJSON: the URIs written are those of the
\* http://www.wikidata.org/entity/ form.
CalendarModelMarshalJSONEntity(c) ==
  CASE c = Gregorian -> "http://www.wikidata.org/entity/Q1985727"
    [] c = Julian -> "http://www.wikidata.org/entity/Q1985786"
    [] OTHER -> ""

\* CalendarModel.MarshalJSON
CalendarModelMarshalJSON(c) ==
  CASE c = Gregorian -> "https://www.wikidata.org/wiki/Q1985727"
    [] c = Julian -> "https://www.wikidata.org/wiki/Q1985786"
    [] OTHER -> ""

\* The value a failed UnmarshalJSON leaves behind is not used.
NoTimeValue == [Time |-> ZeroDate, Precision |-> 0, Calendar |-> Gregorian]

\* TimeValue.UnmarshalJSON
TimeValueUnmarshalJSON(b) ==
  LET c == CalendarModelUnmarshalJSON(b.calendarmodel)
      t == parseTime(b.time)
  IN IF c.err # "nil" THEN [kind |-> "result", err |-> c.err, value |-> NoTimeValue]
     ELSE IF t.err # "nil" THEN [kind |-> "result", err |-> t.err, value |-> NoTimeValue]
     ELSE [kind |-> "result", err |-> "nil",
           value |-> [Time |-> t.time, Precision |-> b.precision, Calendar |-> c.value]]

\* TimeValue.MarshalJSON
TimeValueMarshalJSON(v) ==
  [time |-> formatTime(v.Time, v.Precision),
   precision |-> v.Precision,
   calendarmodel |-> CalendarModelMarshalJSON(v.Calendar)]

\* The manager is not built while the codec runs.
TimeInit ==
  /\ wire \in TimePayloads
  /\ tv = NotRun
  /\ enc = NotRun
  /\ tv2 = NotRun
  /\ src = NotRun
  /\ doc = NotRun
  /\ decoded = NotRun
  /\ holding = [t \in Workers |-> 0]
  /\ dispatched = 0
  /\ file = AbsentFile
  /\ tmp = AbsentFile
  /\ mgr = "none"
  /\ ItemsThreshold = 1
  /\ currentCheckpoint = NilCheckpoint
  /\ itemsSinceLastCheckpoint = 0
  /\ dirty = FALSE
  /\ mu = Free
  /\ pc = [t \in Threads |-> IF t = Bg THEN "off" ELSE "idle"]
  /\ op = [t \in Threads |-> "none"]
  /\ arg = [t \in Threads |-> NoArg]
  /\ data = [t \in Threads |-> AbsentFile]
  /\ err = [t \in Threads |-> "nil"]
  /\ entry = [t \in Threads |-> NoEntry]
  /\ wrote = [t \in Threads |-> FALSE]
  /\ failed = FALSE
  /\ pendingFail = FALSE
  /\ committed = Fields(ZeroCheckpoint)
  /\ closed = FALSE
  /\ lastCrash = "none"

\* json.Unmarshal(wire, &tv)
DecodeWire ==
  /\ tv = NotRun
  /\ tv' = TimeValueUnmarshalJSON(wire)
  /\ UNCHANGED <<wire, enc, tv2, src, doc, decoded, cpVars, dispatchVars>>

\* json.Marshal(tv)
EncodeValue ==
  /\ tv # NotRun /\ tv.err = "nil"
  /\ enc = NotRun
  /\ enc' = TimeValueMarshalJSON(tv.value)
  /\ UNCHANGED <<wire, tv, tv2, src, doc, decoded, cpVars, dispatchVars>>

\* json.Unmarshal(enc, &tv2)
DecodeEncoded ==
  /\ enc # NotRun
  /\ tv2 = NotRun
  /\ tv2' = TimeValueUnmarshalJSON(enc)
  /\ UNCHANGED <<wire, tv, enc, src, doc, decoded, cpVars, dispatchVars>>

TimeNext ==
  \/ DecodeWire
  \/ EncodeValue
  \/ DecodeEncoded

TimeSpec == TimeInit /\ [][TimeNext]_vars

(***************************************************************************)
(* The DataValue codec.  A JSON object is the record of its members: a     *)
(* string member is absent or present with its text, `extra` says that the *)
(* object has a member none of the target structs declares.  The "value"   *)
(* member is absent, a JSON string, or a JSON object of one of the shapes  *)
(* the dump uses.  A Go value of the union is the record of its type name  *)
(* and its fields.                                                         *)
(***************************************************************************)
Absent == [present |-> FALSE, text |-> ""]
Field(s) == [present |-> TRUE, text |-> s]
NoPayload == [kind |-> "absent"]
NoDoc == [kind |-> "nothing"]
\* v.Value of a DataValue that was not decoded (nil).
NoValue == [kind |-> "nil"]

ErrorValue(s) == [kind |-> "ErrorValue", text |-> s]
StringValue(s) == [kind |-> "StringValue", text |-> s]

\* A decode that failed with the error e (made of the pieces text).
Failed(e, text) == [err |-> e, value |-> NoValue, text |-> text]

\* big.Rat.SetString on the amount texts of the inputs: "+1" and "-0.5" are
\* numbers, the others are not.
AmountUnmarshalJSON(s) ==
  CASE s = "+1" -> Decoded([num |-> 1, den |-> 1])
    [] s = "-0.5" -> Decoded([num |-> -1, den |-> 2])
    [] OTHER -> Unknown("cannot parse amount into number", s, [num |-> 0, den |-> 1])

\* Amount.MarshalJSON: "+" unless negative, then the decimal digits.
AmountMarshalJSON(a) ==
  CASE a = [num |-> 1, den |-> 1] -> "+1"
    [] a = [num |-> -1, den |-> 2] -> "-0.5"
    [] OTHER -> "+0"

\* The value member a struct of the given shape gets when the member is absent.
ZeroPayload(shape) ==
  CASE shape = "string" -> [kind |-> "string", text |-> ""]
    [] shape = "wikibase-entityid" ->
         [kind |-> shape, entitytype |-> Absent, id |-> "", numericid |-> FALSE,
          extra |-> FALSE]
    [] shape = "globecoordinate" ->
         [kind |-> shape, latitude |-> 0, longitude |-> 0, altitude |-> FALSE,
          precision |-> 0, globe |-> "", extra |-> FALSE]
    [] shape = "monolingualtext" ->
         [kind |-> shape, language |-> "", text |-> "", extra |-> FALSE]
    [] shape = "quantity" ->
         [kind |-> shape, amount |-> Absent, unit |-> "", extra |-> FALSE]
    [] shape = "time" ->
         [kind |-> shape, time |-> Garbage, precision |-> 0, calendarmodel |-> Absent,
          ignored |-> FALSE, extra |-> FALSE]

\* x.UnmarshalWithoutUnknownFields(b, &t) for a struct with the members type
\* and value, the value of the given shape: the JSON-level error, if any.
\* The decoder disallows unknown fields, at the top level ("error" is one for
\* these structs) and in the value object; a string is no object.
UnmarshalWithoutUnknownFields(b, shape) ==
  IF b.error.present \/ b.extra THEN "json: unknown field"
  ELSE IF b.value.kind = "absent" THEN "nil"
  ELSE IF b.value.kind # shape
       THEN (IF shape = "string" \/ b.value.kind = "string"
             THEN "json: cannot unmarshal" ELSE "json: unknown field")
  ELSE IF shape # "string" /\ b.value.extra THEN "json: unknown field"
  ELSE "nil"

\* The value member as the struct of the given shape holds it.
payload(b, shape) == IF b.value.kind = shape THEN b.value ELSE ZeroPayload(shape)

\* case "string"
DataValueUnmarshalString(b) ==
  LET e == UnmarshalWithoutUnknownFields(b, "string") IN
  IF e # "nil" THEN Failed(e, <<e>>)
  ELSE Decoded(StringValue(payload(b, "string").text))

\* case "wikibase-entityid": numeric-id is read and dropped.
DataValueUnmarshalEntityID(b) ==
  LET e == UnmarshalWithoutUnknownFields(b, "wikibase-entityid")
      p == payload(b, "wikibase-entityid")
      t == IF p.entitytype.present THEN WikiBaseEntityTypeUnmarshalJSON(p.entitytype.text)
           ELSE Decoded("ItemType")
  IN IF e # "nil" THEN Failed(e, <<e>>)
     ELSE IF t.err # "nil" THEN Failed(t.err, t.text)
     ELSE Decoded([kind |-> "WikiBaseEntityIDValue", Type |-> t.value, ID |-> p.id])

\* case "globecoordinate": altitude is read and dropped.
DataValueUnmarshalGlobeCoordinate(b) ==
  LET e == UnmarshalWithoutUnknownFields(b, "globecoordinate")
      p == payload(b, "globecoordinate")
  IN IF e # "nil" THEN Failed(e, <<e>>)
     ELSE Decoded([kind |-> "GlobeCoordinateValue", Latitude |-> p.latitude,
                   Longitude |-> p.longitude, Precision |-> p.precision,
                   Globe |-> p.globe])

\* case "monolingualtext"
DataValueUnmarshalMonolingualText(b) ==
  LET e == UnmarshalWithoutUnknownFields(b, "monolingualtext")
      p == payload(b, "monolingualtext")
  IN IF e # "nil" THEN Failed(e, <<e>>)
     ELSE Decoded([kind |-> "MonolingualTextValue", Language |-> p.language,
                   Text |-> p.text])

\* case "quantity" (the optional bounds are absent in the inputs)
DataValueUnmarshalQuantity(b) ==
  LET e == UnmarshalWithoutUnknownFields(b, "quantity")
      p == payload(b, "quantity")
      a == IF p.amount.present THEN AmountUnmarshalJSON(p.amount.text)
           ELSE Decoded([num |-> 0, den |-> 1])
  IN IF e # "nil" THEN Failed(e, <<e>>)
     ELSE IF a.err # "nil" THEN Failed(a.err, a.text)
     ELSE Decoded([kind |-> "QuantityValue", Amount |-> a.value, Unit |-> p.unit])

\* Mutant of DataValueUnmarshalTime: a timestamp that does not parse fails the
\* decode, as it does in TimeValue.UnmarshalJSON.
DataValueUnmarshalTimeStrict(b) ==
  LET e == UnmarshalWithoutUnknownFields(b, "time")
      p == payload(b, "time")
      c == IF p.calendarmodel.present THEN CalendarModelUnmarshalJSON(p.calendarmodel.text)
           ELSE Decoded(Gregorian)
      t == parseTime(p.time)
  IN IF e # "nil" THEN Failed(e, <<e>>)
     ELSE IF c.err # "nil" THEN Failed(c.err, c.text)
     ELSE IF t.err # "nil" THEN Failed(t.err, <<t.err>>)
     ELSE Decoded([kind |-> "TimeValue", Time |-> t.time, Precision |-> p.precision,
                   Calendar |-> c.value])

\* case "time": timezone, before and after are read and dropped; a timestamp
\* that does not parse gives an ErrorValue with the message of the failure.
DataValueUnmarshalTime(b) ==
  LET e == UnmarshalWithoutUnknownFields(b, "time")
      p == payload(b, "time")
      c == IF p.calendarmodel.present THEN CalendarModelUnmarshalJSON(p.calendarmodel.text)
           ELSE Decoded(Gregorian)
      t == parseTime(p.time)
  IN IF e # "nil" THEN Failed(e, <<e>>)
     ELSE IF c.err # "nil" THEN Failed(c.err, c.text)
     ELSE IF t.err # "nil" THEN Decoded(ErrorValue(t.err))
     ELSE Decoded([kind |-> "TimeValue", Time |-> t.time, Precision |-> p.precision,
                   Calendar |-> c.value])

\* DataValue.UnmarshalJSON: an absent member leaves the empty string.
DataValueUnmarshalJSON(b) ==
  IF b.error.text # "" THEN Decoded(ErrorValue(b.error.text))
  ELSE CASE b.type.text = "string" -> DataValueUnmarshalString(b)
         [] b.type.text = "wikibase-entityid" -> DataValueUnmarshalEntityID(b)
         [] b.type.text = "globecoordinate" -> DataValueUnmarshalGlobeCoordinate(b)
         [] b.type.text = "monolingualtext" -> DataValueUnmarshalMonolingualText(b)
         [] b.type.text = "quantity" -> DataValueUnmarshalQuantity(b)
         [] b.type.text = "time" -> DataValueUnmarshalTime(b)
         \* errors.Errorf(`unknown data value type "%s": %s`, t.Type, string(b)):
         \* the last piece is the text of the whole object.
         [] OTHER -> Failed("unknown data value type",
                            <<"unknown data value type \"", b.type.text, "\": ",
                              "string(b)">>)

\* The object json.Marshal makes of struct{Type; Value}.
typed(type, value) ==
  [kind |-> "datavalue", type |-> Field(type), error |-> Absent, value |-> value,
   extra |-> FALSE]

\* DataValue.MarshalJSON
DataValueMarshalJSON(v) ==
  CASE v.kind = "ErrorValue" ->
         [kind |-> "datavalue", type |-> Absent, error |-> Field(v.text),
          value |-> NoPayload, extra |-> FALSE]
    [] v.kind = "StringValue" -> typed("string", [kind |-> "string", text |-> v.text])
    [] v.kind = "WikiBaseEntityIDValue" ->
         typed("wikibase-entityid",
               [kind |-> "wikibase-entityid",
                entitytype |-> Field(WikiBaseEntityTypeMarshalJSON(v.Type)),
                id |-> v.ID, numericid |-> FALSE, extra |-> FALSE])
    [] v.kind = "GlobeCoordinateValue" ->
         typed("globecoordinate",
               [kind |-> "globecoordinate", latitude |-> v.Latitude,
                longitude |-> v.Longitude, altitude |-> FALSE,
                precision |-> v.Precision, globe |-> v.Globe, extra |-> FALSE])
    [] v.kind = "MonolingualTextValue" ->
         typed("monolingualtext",
               [kind |-> "monolingualtext", language |-> v.Language, text |-> v.Text,
                extra |-> FALSE])
    [] v.kind = "QuantityValue" ->
         typed("quantity",
               [kind |-> "quantity", amount |-> Field(AmountMarshalJSON(v.Amount)),
                unit |-> v.Unit, extra |-> FALSE])
    [] v.kind = "TimeValue" ->
         typed("time",
               [kind |-> "time", time |-> formatTime(v.Time, v.Precision),
                precision |-> v.Precision,
                calendarmodel |-> Field(CalendarModelMarshalJSON(v.Calendar)),
                ignored |-> FALSE, extra |-> FALSE])
    [] OTHER -> NoDoc

(***************************************************************************)
(* Snak, Statement and Entity are decoded by encoding/json from their      *)
(* struct declarations: each member is decoded by its type's UnmarshalJSON *)
(* and the first error ends the decode.  Members are taken in the order of *)
(* the declaration; the claims of an entity are the sequence of its        *)
(* statements.                                                             *)
(***************************************************************************)
\* json.Unmarshal into Snak.
UnmarshalSnak(s) ==
  LET st == SnakTypeUnmarshalJSON(s.snaktype)
      dt == DataTypeUnmarshalJSON(s.datatype)
      dv == IF s.datavalue = NoDoc THEN Decoded(NoValue)
            ELSE DataValueUnmarshalJSON(s.datavalue)
  IN IF st.err # "nil" THEN Failed(st.err, st.text)
     ELSE IF dt.err # "nil" THEN Failed(dt.err, dt.text)
     ELSE IF dv.err # "nil" THEN Failed(dv.err, dv.text)
     ELSE Decoded([kind |-> "Snak", SnakType |-> st.value, DataType |-> dt.value,
                   DataValue |-> dv.value])

\* json.Unmarshal into Statement.
UnmarshalStatement(s) ==
  LET t == StatementTypeUnmarshalJSON(s.type)
      m == UnmarshalSnak(s.mainsnak)
      r == StatementRankUnmarshalJSON(s.rank)
  IN IF t.err # "nil" THEN Failed(t.err, t.text)
     ELSE IF m.err # "nil" THEN Failed(m.err, m.text)
     ELSE IF r.err # "nil" THEN Failed(r.err, r.text)
     ELSE Decoded([kind |-> "Statement", Type |-> t.value, MainSnak |-> m.value,
                   Rank |-> r.value])

\* json.Unmarshal into Entity.
UnmarshalEntity(e) ==
  LET t == EntityTypeUnmarshalJSON(e.type)
      cs == [i \in 1..Len(e.claims) |-> UnmarshalStatement(e.claims[i])]
      bad == {i \in 1..Len(e.claims) : cs[i].err # "nil"}
      first == CHOOSE i \in bad : \A j \in bad : i <= j
  IN IF t.err # "nil" THEN Failed(t.err, t.text)
     ELSE IF bad # {} THEN Failed(cs[first].err, cs[first].text)
     ELSE Decoded([kind |-> "Entity", Type |-> t.value,
                   Claims |-> [i \in 1..Len(e.claims) |-> cs[i].value]])

\* json.Unmarshal of one token into a variable of the named enumeration.
UnmarshalToken(enum, s) ==
  CASE enum = "EntityType" -> EntityTypeUnmarshalJSON(s)
    [] enum = "WikiBaseEntityType" -> WikiBaseEntityTypeUnmarshalJSON(s)
    [] enum = "StatementType" -> StatementTypeUnmarshalJSON(s)
    [] enum = "StatementRank" -> StatementRankUnmarshalJSON(s)
    [] enum = "SnakType" -> SnakTypeUnmarshalJSON(s)
    [] enum = "DataType" -> DataTypeUnmarshalJSON(s)
    [] enum = "CalendarModel" -> CalendarModelUnmarshalJSON(s)

\* Inputs of the DataValue codec.
TypeTokens == {"", "string", "wikibase-entityid", "globecoordinate", "monolingualtext",
               "quantity", "time", "foobar", "Time"}
ErrorTexts == {"", "boom"}
TimestampInputs ==
  {Garbage,
   [kind |-> "timestamp", sign |-> "-", year |-> <<0, 0, 0, 0, 0>>, month |-> 1,
    day |-> 1, hour |-> 0, minute |-> 0, second |-> 0],
   [kind |-> "timestamp", sign |-> "-", year |-> <<0, 0, 4, 4>>, month |-> 0,
    day |-> 0, hour |-> 0, minute |-> 0, second |-> 0],
   [kind |-> "timestamp", sign |-> "+", year |-> <<0, 0, 0, 4>>, month |-> 2,
    day |-> 29, hour |-> 23, minute |-> 0, second |-> 59],
   [kind |-> "timestamp", sign |-> "+", year |-> <<0, 0, 0, 1>>, month |-> 13,
    day |-> 32, hour |-> 24, minute |-> 60, second |-> 59]}
TimeValuePayloads ==
  [kind : {"time"}, time : TimestampInputs, precision : {Year, Day},
   calendarmodel : {Absent} \cup {Field(u) : u \in {"https://www.wikidata.org/wiki/Q1985727",
                                                    "http://www.wikidata.org/entity/Q1985786",
                                                    "http://www.wikidata.org/entity/Q12138"}},
   ignored : BOOLEAN, extra : BOOLEAN]
Payloads ==
  {NoPayload}
    \cup [kind : {"string"}, text : {"", "Q42"}]
    \cup [kind : {"wikibase-entityid"},
          entitytype : {Absent} \cup {Field(s) : s \in {"item", "sense", "foobar", ""}},
          id : {"Q42"}, numericid : BOOLEAN, extra : BOOLEAN]
    \cup [kind : {"globecoordinate"}, latitude : {52}, longitude : {13},
          altitude : BOOLEAN, precision : {1}, globe : {"Q2"}, extra : BOOLEAN]
    \cup [kind : {"monolingualtext"}, language : {"en"}, text : {"Go"}, extra : BOOLEAN]
    \cup [kind : {"quantity"}, amount : {Absent} \cup {Field(s) : s \in {"+1", "-0.5", "abc"}},
          unit : {"1"}, extra : BOOLEAN]
    \cup TimeValuePayloads
DataValueDocs ==
  [kind : {"datavalue"}, type : {Absent} \cup {Field(s) : s \in TypeTokens},
   error : {Absent} \cup {Field(s) : s \in ErrorTexts}, value : Payloads, extra : BOOLEAN]

\* Go values given to DataValue.MarshalJSON.
DataValues ==
  {ErrorValue(s) : s \in ErrorTexts}
    \cup {StringValue("Q42"), NoValue,
          [kind |-> "WikiBaseEntityIDValue", Type |-> "SenseType", ID |-> "L1-S1"],
          [kind |-> "GlobeCoordinateValue", Latitude |-> 52, Longitude |-> 13,
           Precision |-> 1, Globe |-> "Q2"],
          [kind |-> "MonolingualTextValue", Language |-> "en", Text |-> "Go"],
          [kind |-> "QuantityValue", Amount |-> [num |-> -1, den |-> 2], Unit |-> "1"],
          [kind |-> "TimeValue", Time |-> Date(-43, 3, 15, 0, 0, 0), Precision |-> Day,
           Calendar |-> Julian]}

\* Inputs of the entity decoder.
SnakValueDocs ==
  {typed("time", p) : p \in {q \in TimeValuePayloads :
                               /\ q.precision = Day /\ ~q.ignored /\ ~q.extra
                               /\ q.calendarmodel.present}}
    \cup {typed("foobar", NoPayload), typed("string", [kind |-> "string", text |-> "Q42"]),
          DataValueMarshalJSON(ErrorValue("boom"))}
SnakDocs ==
  [kind : {"snak"}, snaktype : {"value", "novalue", "Value"},
   datatype : {"time", "wikibase-item", "Time"}, datavalue : {NoDoc} \cup SnakValueDocs]
StatementDocs ==
  [kind : {"statement"}, type : {"statement", "claim"}, rank : {"normal", "best"},
   mainsnak : SnakDocs]
EntityDocs ==
  [kind : {"entity"}, type : {"item", "property", "foobar", ""},
   claims : {<<>>} \cup {<<s>> : s \in StatementDocs}]

\* Tokens given to the enumerations: those of every table and some of none.
Enums == {"EntityType", "WikiBaseEntityType", "StatementType", "StatementRank",
          "SnakType", "DataType", "CalendarModel"}
Tokens ==
  {"item", "property", "lexeme", "form", "sense", "statement", "preferred", "normal",
   "deprecated", "value", "somevalue", "novalue", "wikibase-item", "external-id",
   "string", "quantity", "time", "globe-coordinate", "commonsMedia", "monolingualtext",
   "url", "geo-shape", "wikibase-lexeme", "wikibase-sense", "wikibase-property", "math",
   "musical-notation", "wikibase-form", "tabular-data"}
    \cup CalendarURIs
    \cup {"", "foobar", "Item", "commonsmedia", "wikibase-entityid",
          "https://www.wikidata.org/wiki/Q12138", "http://www.wikidata.org/wiki/Q1985727"}
TokenDocs == [kind : {"token"}, enum : Enums, token : Tokens]

\* The manager is not built while a codec runs.
ManagerNotBuilt ==
  /\ file = AbsentFile
  /\ tmp = AbsentFile
  /\ mgr = "none"
  /\ ItemsThreshold = 1
  /\ currentCheckpoint = NilCheckpoint
  /\ itemsSinceLastCheckpoint = 0
  /\ dirty = FALSE
  /\ mu = Free
  /\ pc = [t \in Threads |-> IF t = Bg THEN "off" ELSE "idle"]
  /\ op = [t \in Threads |-> "none"]
  /\ arg = [t \in Threads |-> NoArg]
  /\ data = [t \in Threads |-> AbsentFile]
  /\ err = [t \in Threads |-> "nil"]
  /\ entry = [t \in Threads |-> NoEntry]
  /\ wrote = [t \in Threads |-> FALSE]
  /\ failed = FALSE
  /\ pendingFail = FALSE
  /\ committed = Fields(ZeroCheckpoint)
  /\ closed = FALSE
  /\ lastCrash = "none"
  /\ holding = [t \in Workers |-> 0]
  /\ dispatched = 0

ValueInit ==
  /\ \/ src \in DataValues /\ doc = NotRun
     \/ src = NotRun /\ doc \in DataValueDocs \cup EntityDocs \cup TokenDocs
  /\ decoded = NotRun
  /\ wire = NotRun
  /\ tv = NotRun
  /\ enc = NotRun
  /\ tv2 = NotRun
  /\ ManagerNotBuilt

codecFrame == UNCHANGED <<wire, tv, enc, tv2, cpVars, dispatchVars>>

\* json.Marshal(DataValue{src})
MarshalDataValue ==
  /\ src # NotRun
  /\ doc = NotRun
  /\ doc' = DataValueMarshalJSON(src)
  /\ UNCHANGED <<src, decoded>>
  /\ codecFrame

\* json.Unmarshal(doc, &dataValue)
UnmarshalDataValue ==
  /\ doc.kind = "datavalue"
  /\ decoded = NotRun
  /\ decoded' = DataValueUnmarshalJSON(doc)
  /\ UNCHANGED <<src, doc>>
  /\ codecFrame

\* json.Unmarshal(doc, &entity)
UnmarshalEntityDoc ==
  /\ doc.kind = "entity"
  /\ decoded = NotRun
  /\ decoded' = UnmarshalEntity(doc)
  /\ UNCHANGED <<src, doc>>
  /\ codecFrame

\* json.Unmarshal(doc, &enumeration)
UnmarshalTokenDoc ==
  /\ doc.kind = "token"
  /\ decoded = NotRun
  /\ decoded' = UnmarshalToken(doc.enum, doc.token)
  /\ UNCHANGED <<src, doc>>
  /\ codecFrame

ValueNext ==
  \/ MarshalDataValue
  \/ UnmarshalDataValue
  \/ UnmarshalEntityDoc
  \/ UnmarshalTokenDoc

ValueSpec == ValueInit /\ [][ValueNext]_vars

(***************************************************************************)
(* The line-number framing.  A []byte is the sequence of its bytes.        *)
(***************************************************************************)
\* Mutant of AddLineNumber: the four bytes are written most significant first.
AddLineNumberBigEndian(lineNumber, d) ==
  <<(lineNumber \div 16777216) % 256, (lineNumber \div 65536) % 256,
    (lineNumber \div 256) % 256, lineNumber % 256>> \o d

\* AddLineNumber: binary.Write(buf, binary.LittleEndian, int32(lineNumber)),
\* then the data.  For a line number of the int32 range the conversion changes
\* nothing and the bytes are those of its two's complement.
AddLineNumber(lineNumber, d) ==
  <<lineNumber % 256, (lineNumber \div 256) % 256,
    (lineNumber \div 65536) % 256, (lineNumber \div 16777216) % 256>> \o d

\* ParseLineNumber: int(binary.LittleEndian.Uint32(data[:4])), data[4:].
ParseLineNumber(d) ==
  IF Len(d) < 4
  THEN [err |-> "data too short to contain line number", lineNumber |-> 0, data |-> <<>>]
  ELSE [err |-> "nil",
        lineNumber |-> d[1] + 256 * d[2] + 65536 * d[3] + 16777216 * d[4],
        data |-> SubSeq(d, 5, Len(d))]

\* Inputs of the framing: line numbers of the non-negative int32 range, and
\* byte sequences given to ParseLineNumber as they are.
LineNumbers == {0, 1, 255, 256, 65535, 65536, 16777215, 16777216, 305419896, 2147483647}
FramePayloads == {<<>>, <<0>>, <<255>>, <<1, 2, 3, 4>>, <<0, 0, 0, 0, 0>>}
RawFrames == {<<>>, <<1>>, <<1, 0>>, <<1, 0, 0>>, <<1, 0, 0, 0>>, <<0, 1, 0, 0, 7>>,
              <<255, 255, 255, 127>>, <<120, 86, 52, 18, 9, 9>>}

FrameInit ==
  /\ \/ /\ src \in [kind : {"frame"}, lineNumber : LineNumbers, data : FramePayloads]
        /\ doc = NotRun
     \/ /\ src = NotRun
        /\ doc \in [kind : {"bytes"}, bytes : RawFrames]
  /\ decoded = NotRun
  /\ wire = NotRun
  /\ tv = NotRun
  /\ enc = NotRun
  /\ tv2 = NotRun
  /\ ManagerNotBuilt

\* framed := AddLineNumber(lineNumber, data)
AddLineNumberCall ==
  /\ src # NotRun
  /\ doc = NotRun
  /\ doc' = [kind |-> "bytes", bytes |-> AddLineNumber(src.lineNumber, src.data)]
  /\ UNCHANGED <<src, decoded>>
  /\ codecFrame

\* lineNumber, data, err := ParseLineNumber(framed)
ParseLineNumberCall ==
  /\ doc # NotRun
  /\ decoded = NotRun
  /\ decoded' = ParseLineNumber(doc.bytes)
  /\ UNCHANGED <<src, doc>>
  /\ codecFrame

FrameNext ==
  \/ AddLineNumberCall
  \/ ParseLineNumberCall

FrameSpec == FrameInit /\ [][FrameNext]_vars

(***************************************************************************)
(* Properties.                                                             *)
(***************************************************************************)
\* The checkpoint file holds exactly the in-memory total_items, last_item_id and position.
FileHoldsMemory ==
  /\ file.kind = "json"
  /\ JSONFields(file) = Fields(currentCheckpoint)

\* C1: with no failed flush, an UpdateProgressAndMaybeSave call writes the
\* checkpoint file if and only if it brings the since-last-flush counter to the
\* threshold; when it returns after writing, the file holds the in-memory
\* snapshot including the call's own update, the counter is 0 and the state is
\* clean; when it returns without writing, the file is as it was at entry.
C1_ThresholdFlush ==
  \A t \in Workers :
    (pc[t] = "ret" /\ op[t] = "update" /\ ~failed) =>
      /\ wrote[t] <=> (entry[t].count + 1 = ItemsThreshold)
      /\ Fields(currentCheckpoint) = committed
      /\ currentCheckpoint.LastItemID = arg[t].itemID
      /\ currentCheckpoint.ProcessedPosition = arg[t].position
      /\ wrote[t] => (FileHoldsMemory /\ itemsSinceLastCheckpoint = 0 /\ ~dirty)
      /\ ~wrote[t] => (file = entry[t].file /\ dirty
                        /\ itemsSinceLastCheckpoint = entry[t].count + 1)

\* C1 witness: with threshold 2, the second update of a fresh manager returns
\* having written the file that did not exist before.
C1_Witness ==
  \E t \in Workers :
    /\ pc[t] = "ret" /\ op[t] = "update" /\ ~failed
    /\ ItemsThreshold = 2 /\ entry[t].count = 1
    /\ entry[t].file = AbsentFile /\ wrote[t]

\* C2: whatever step a crash interrupts, the checkpoint file only ever changes by
\* the rename, to the complete snapshot being flushed: it is never partial and
\* never removed; and a start on a file holding a snapshot loads exactly that
\* snapshot's total_items, last_item_id and position, leaving the file as it is.
C2_CrashSafe ==
  /\ [][file' # file =>
          /\ file'.kind = "json"
          /\ \E t \in Threads : pc[t] = "save_rename" /\ mu = t
          /\ file' = Marshal(currentCheckpoint)]_vars
  /\ [][(mgr = "none" /\ mgr' # "none" /\ file.kind = "json") =>
          /\ mgr' = "alive"
          /\ Fields(currentCheckpoint') = JSONFields(file)
          /\ file' = file]_vars

\* C2 witness: the process crashed between the write of the temp file and the
\* rename of a second flush, and the restart loaded the first flush's snapshot.
C2_Witness ==
  /\ lastCrash = "save_rename"
  /\ mgr = "alive"
  /\ file.kind = "json" /\ tmp.kind = "json" /\ tmp # file
  /\ Fields(currentCheckpoint) = JSONFields(file)

\* C3: a Close that found the state dirty and is about to return nil has
\* written the file, which holds exactly the in-memory snapshot; the state is
\* clean and the counter 0, whatever the counter was.
C3_CloseFlushes ==
  \A t \in Workers :
    (pc[t] = "ret" /\ op[t] = "close" /\ entry[t].dirty /\ err[t] = "nil") =>
      /\ wrote[t]
      /\ FileHoldsMemory
      /\ Fields(currentCheckpoint) = committed
      /\ ~dirty
      /\ itemsSinceLastCheckpoint = 0

\* C3 witness: Close returns nil after flushing a state whose counter was
\* below the threshold.
C3_Witness ==
  \E t \in Workers :
    /\ pc[t] = "ret" /\ op[t] = "close" /\ entry[t].dirty /\ err[t] = "nil"
    /\ entry[t].count > 0 /\ entry[t].count < ItemsThreshold
    /\ wrote[t]


\* C4: a tick that finds the state dirty calls Save, and when that Save is
\* about to return nil the file holds the in-memory snapshot and the state is
\* clean; the background task leaves its wait only on a tick that found the
\* state dirty and writes only while the state is dirty, so a tick that finds
\* the state clean writes nothing; and, with ticks firing repeatedly, every dirty state eventually
\* becomes clean, also when the counter never reaches the threshold.
C4_TickFlushes ==
  /\ []((pc[Bg] = "ret" /\ err[Bg] = "nil") => (FileHoldsMemory /\ ~dirty))
  /\ [][(pc[Bg] = "bg_wait" /\ pc'[Bg] # "bg_wait" /\ mgr' = "alive") =>
          (dirty /\ pc'[Bg] = "bg_call" /\ file' = file /\ tmp' = tmp)]_vars
  /\ [](pc[Bg] \in {"save_stamp", "save_write", "save_write_data", "save_rename"} => dirty)
  /\ (dirty ~> ~dirty)

\* C4 witness: the background Save returns nil having written a state whose
\* counter was below the threshold.
C4_Witness ==
  /\ pc[Bg] = "ret" /\ op[Bg] = "tick" /\ err[Bg] = "nil"
  /\ wrote[Bg]
  /\ entry[Bg].count > 0 /\ entry[Bg].count < ItemsThreshold


\* C5: every snapshot that reaches the checkpoint file is the in-memory state
\* after all the updates that have taken the lock so far, whole: total_items is
\* the loaded value plus their number, position and last_item_id are those of
\* the last of them; and whenever the mutex is free the in-memory snapshot is
\* that state too, so no update's increment is lost.
C5_WholeSnapshots ==
  /\ [][file' # file => (file'.kind = "json" /\ JSONFields(file') = committed)]_vars
  /\ []((mgr = "alive" /\ mu = Free) => Fields(currentCheckpoint) = committed)

\* C5 witness: an update-triggered flush has replaced the file while the
\* background goroutine and the other worker's update wait for the mutex.
C5_Witness ==
  \E t \in Workers :
    /\ pc[t] = "save_reset" /\ op[t] = "update"
    /\ pc[Bg] = "bg_call"
    /\ JSONFields(file) = committed
    /\ committed[1] = 2

\* C6 (as the claim states it): once Close has returned, the background
\* goroutine writes neither the temp file nor the checkpoint file.
C6_BackgroundStopped ==
  [][(closed /\ mu = Bg) => (file' = file /\ tmp' = tmp)]_vars

\* A failing flush leaves everything but the timestamp as it was: the update
\* is kept, the state stays dirty, the counter is not reset, the file is not
\* touched; an update-triggered failure is returned with the threshold still
\* reached; the background goroutine goes back to waiting; while the failure
\* is pending the state stays dirty and the counter does not decrease, so the
\* next tick calls Save and the Save attempts the write.
C7_FailureKeepsState ==
  /\ [](\A t \in Threads :
          (pc[t] = "ret" /\ err[t] # "nil") =>
            /\ dirty
            /\ Fields(currentCheckpoint) = committed
            /\ itemsSinceLastCheckpoint =
                 entry[t].count + (IF op[t] = "update" THEN 1 ELSE 0)
            /\ file = entry[t].file
            /\ (op[t] = "update" => ThresholdReached))
  /\ [](pendingFail => dirty)
  /\ [][(pendingFail /\ pendingFail') =>
          itemsSinceLastCheckpoint' >= itemsSinceLastCheckpoint]_vars
  /\ [][(pc[Bg] = "ret" /\ err[Bg] # "nil" /\ pc'[Bg] # "ret" /\ mgr' = "alive") =>
          pc'[Bg] = "bg_wait"]_vars
  /\ [][(pendingFail /\ pc[Bg] = "bg_wait" /\ pc'[Bg] # "bg_wait" /\ mgr' = "alive") =>
          pc'[Bg] = "bg_call"]_vars
  /\ [][\A t \in Threads :
          (pendingFail /\ pc[t] = "save_check" /\ pc'[t] # "save_check" /\ mgr' = "alive")
            => pc'[t] = "save_stamp"]_vars

\* C7 (amended): a failing flush keeps the state as above, and the next update
\* attempts the flush again when it brings the counter to the threshold or
\* above, which is always so after a failing flush that an update triggered.
C7_RetryAtThreshold ==
  /\ C7_FailureKeepsState
  /\ [][\A t \in Workers :
          (pendingFail /\ pc[t] = "upd_check" /\ pc'[t] # "upd_check" /\ mgr' = "alive"
             /\ itemsSinceLastCheckpoint >= ItemsThreshold)
            => pc'[t] = "save_check"]_vars

\* C7 (as the claim states it): a failing flush keeps the state as above, and
\* the next update attempts the flush again.
C7_RetryAlways ==
  /\ C7_FailureKeepsState
  /\ [][\A t \in Workers :
          (pendingFail /\ pc[t] = "upd_check" /\ pc'[t] # "upd_check" /\ mgr' = "alive")
            => pc'[t] = "save_check"]_vars

\* C7 witness: an update that follows a failed update-triggered flush is
\* attempting the flush again.
C7_Witness ==
  \E t \in Workers :
    /\ pendingFail
    /\ pc[t] = "save_stamp" /\ op[t] = "update"
    /\ entry[t].count >= ItemsThreshold

\* C8: a checkpoint file that cannot be parsed never gives a manager: the
\* constructor panics, no snapshot is substituted, no background goroutine
\* runs, no operation runs, and the file stays as it is.
C8_CorruptFilePanics ==
  /\ []((file.kind \in {"corrupt", "partial"} /\ mgr # "none") =>
          /\ mgr = "panicked"
          /\ currentCheckpoint = NilCheckpoint
          /\ pc[Bg] = "off"
          /\ \A t \in Workers : pc[t] = "idle")
  /\ [][file.kind \in {"corrupt", "partial"} => file' = file]_vars

\* C8 witness: construction on a corrupt file has panicked.
C8_Witness ==
  /\ mgr = "panicked"
  /\ file = CorruptFile

\* C9: construction on a missing file gives a manager with the empty
\* snapshot, clean, with the counter at 0 and the background goroutine
\* started, and does not create the file.
C9_MissingFileFreshStart ==
  [][(mgr = "none" /\ file = AbsentFile /\ mgr' # "none") =>
       /\ mgr' = "alive"
       /\ currentCheckpoint' = ZeroCheckpoint
       /\ currentCheckpoint'.TotalItems = 0
       /\ ~dirty'
       /\ itemsSinceLastCheckpoint' = 0
       /\ pc'[Bg] = "bg_wait"
       /\ file' = AbsentFile]_vars

\* C9 witness: a manager built on a missing file, before any update.
C9_Witness ==
  /\ mgr = "alive"
  /\ file = AbsentFile
  /\ currentCheckpoint = ZeroCheckpoint
  /\ ~dirty
  /\ lastCrash = "none"


\* C10 (as the claim states it): for every TimeValue decode produces,
\* decoding its encoding succeeds and gives the same time (year, month, day,
\* hour, minute, second), precision and calendar.
C10_DecodeEncodeIdentity ==
  (tv # NotRun /\ tv.err = "nil" /\ tv2 # NotRun) =>
    (tv2.err = "nil" /\ tv2.value = tv.value)

\* The year a wire timestamp names, in astronomical numbering (1 BCE is 0).
AstronomicalYear(t) ==
  IF t.sign = "-" THEN 1 - digitsValue(t.year) ELSE digitsValue(t.year)

\* A wire timestamp in canonical form for precision p: a non-zero year of four
\* digits or more without padding beyond four, a month and a day that exist in
\* that year (00 exactly below the Month and the Day precision), a time of day.
CanonicalTimestamp(t, p) ==
  /\ t.kind = "timestamp"
  /\ digitsValue(t.year) # 0
  /\ (Len(t.year) = 4 \/ t.year[1] # 0)
  /\ t.month \in 0..12
  /\ (t.month = 0 <=> p < Month)
  /\ (t.day = 0 <=> p < Day)
  /\ t.day <= daysIn(IF t.month = 0 THEN 1 ELSE t.month, AstronomicalYear(t))
  /\ t.hour <= 23 /\ t.minute <= 59 /\ t.second <= 59

YearIsZero(t) ==
  /\ t.kind = "timestamp"
  /\ \A i \in 1..Len(t.year) : t.year[i] = 0

\* C12: decoding a wire timestamp whose year field is zero, with either sign
\* and four digits or more, fails with "year cannot be 0" (when the calendar
\* URI of the payload is an accepted one, so that the timestamp decides) and
\* gives no time value, whatever the other fields are.
C12_YearZeroFails ==
  (YearIsZero(wire.time) /\ tv # NotRun) =>
    /\ tv.err # "nil"
    /\ (CalendarModelUnmarshalJSON(wire.calendarmodel).err = "nil" =>
          tv.err = "year cannot be 0")
    /\ tv.value = NoTimeValue
    /\ enc = NotRun

\* C12 witness: "-00000-01-01T00:00:00Z" has been refused.
C12_Witness ==
  /\ tv # NotRun
  /\ wire.time.kind = "timestamp"
  /\ wire.time.sign = "-" /\ wire.time.year = <<0, 0, 0, 0, 0>>
  /\ wire.time.month = 1 /\ wire.time.day = 1
  /\ tv.err = "year cannot be 0"

\* C13 (as the claim states it): a DataValue object in which an error member
\* is present decodes, whatever string the member carries and whatever the
\* type member is, to the ErrorValue of exactly that string; and decoding the
\* encoding of an ErrorValue gives the same ErrorValue back.
C13_ErrorFieldWins ==
  /\ (doc.kind = "datavalue" /\ doc.error.present /\ decoded # NotRun) =>
        (decoded.err = "nil" /\ decoded.value = ErrorValue(doc.error.text))
  /\ (src # NotRun /\ src.kind = "ErrorValue" /\ decoded # NotRun) =>
        (decoded.err = "nil" /\ decoded.value = src)

\* The four calendar URIs the wire format uses.
AcceptedCalendarURIs == {"https://www.wikidata.org/wiki/Q1985727",
                         "http://www.wikidata.org/entity/Q1985727",
                         "https://www.wikidata.org/wiki/Q1985786",
                         "http://www.wikidata.org/entity/Q1985786"}

\* A DataValue object of type "time" with only permitted members, a valid
\* precision and an accepted calendar URI, whose time text does not parse: it
\* is not of the timestamp format, or its year is zero.
UnparsableTimeValue(d) ==
  /\ d.kind = "datavalue"
  /\ d.type = Field("time") /\ ~d.error.present /\ ~d.extra
  /\ d.value.kind = "time" /\ ~d.value.extra
  /\ d.value.precision \in Precisions
  /\ d.value.calendarmodel.present
  /\ d.value.calendarmodel.text \in AcceptedCalendarURIs
  /\ (d.value.time = Garbage \/ YearIsZero(d.value.time))

\* The message of the parse failure of such an object.
ParseFailure(d) ==
  IF d.value.time = Garbage THEN "unable to parse time" ELSE "year cannot be 0"

\* C14: such an object decodes, without error, to the ErrorValue that carries
\* the message of the parse failure; and an entity whose tokens are all known
\* and whose statement has such an object as the value of its main snak
\* decodes without error, the snak holding that ErrorValue.
C14_TimeSoftFails ==
  /\ (UnparsableTimeValue(doc) /\ decoded # NotRun) =>
        (decoded.err = "nil" /\ decoded.value = ErrorValue(ParseFailure(doc)))
  /\ (/\ doc.kind = "entity" /\ decoded # NotRun
      /\ doc.type \in {"item", "property"}
      /\ Len(doc.claims) = 1
      /\ doc.claims[1].type = "statement"
      /\ doc.claims[1].rank \in {"preferred", "normal", "deprecated"}
      /\ doc.claims[1].mainsnak.snaktype \in {"value", "somevalue", "novalue"}
      /\ doc.claims[1].mainsnak.datatype = "time"
      /\ UnparsableTimeValue(doc.claims[1].mainsnak.datavalue)) =>
        /\ decoded.err = "nil"
        /\ decoded.value.Claims[1].MainSnak.DataValue =
             ErrorValue(ParseFailure(doc.claims[1].mainsnak.datavalue))

\* C14 witness: an entity has been decoded whose statement's time value has
\* year 0, and the main snak holds the ErrorValue "year cannot be 0".
C14_Witness ==
  /\ doc.kind = "entity" /\ decoded # NotRun
  /\ Len(doc.claims) = 1
  /\ UnparsableTimeValue(doc.claims[1].mainsnak.datavalue)
  /\ YearIsZero(doc.claims[1].mainsnak.datavalue.value.time)
  /\ decoded.err = "nil"
  /\ decoded.value.Claims[1].MainSnak.DataValue = ErrorValue("year cannot be 0")

\* The table of each closed enumeration, and that of the DataValue type member.
TableOf(enum) ==
  CASE enum = "EntityType" -> {"item", "property"}
    [] enum = "WikiBaseEntityType" -> {"item", "property", "lexeme", "form", "sense"}
    [] enum = "StatementType" -> {"statement"}
    [] enum = "StatementRank" -> {"preferred", "normal", "deprecated"}
    [] enum = "SnakType" -> {"value", "somevalue", "novalue"}
    [] enum = "DataType" ->
         {"wikibase-item", "external-id", "string", "quantity", "time", "globe-coordinate",
          "commonsMedia", "monolingualtext", "url", "geo-shape", "wikibase-lexeme",
          "wikibase-sense", "wikibase-property", "math", "musical-notation",
          "wikibase-form", "tabular-data"}
    [] enum = "CalendarModel" -> AcceptedCalendarURIs
DiscriminatorTable == {"string", "wikibase-entityid", "globecoordinate", "monolingualtext",
                       "quantity", "time"}

\* The token is one of the pieces of the text of the error.
Contains(text, token) == \E i \in 1..Len(text) : text[i] = token

\* The calendar URI of a DataValue object of type "time", if it is in no table.
OffendingCalendar(d) ==
  IF /\ d # NoDoc /\ d.error.text = "" /\ d.type.text = "time"
     /\ d.value.kind = "time" /\ d.value.calendarmodel.present
     /\ d.value.calendarmodel.text \notin TableOf("CalendarModel")
  THEN {d.value.calendarmodel.text} ELSE {}

\* The tokens of an entity document that are in no table.
OffendingTokens(e) ==
  (IF e.type \in TableOf("EntityType") THEN {} ELSE {e.type})
    \cup UNION {
         (IF e.claims[i].type \in TableOf("StatementType") THEN {} ELSE {e.claims[i].type})
           \cup (IF e.claims[i].rank \in TableOf("StatementRank")
                 THEN {} ELSE {e.claims[i].rank})
           \cup (IF e.claims[i].mainsnak.snaktype \in TableOf("SnakType")
                 THEN {} ELSE {e.claims[i].mainsnak.snaktype})
           \cup (IF e.claims[i].mainsnak.datatype \in TableOf("DataType")
                 THEN {} ELSE {e.claims[i].mainsnak.datatype})
           \cup (IF \/ e.claims[i].mainsnak.datavalue = NoDoc
                    \/ e.claims[i].mainsnak.datavalue.error.text # ""
                    \/ e.claims[i].mainsnak.datavalue.type.text \in DiscriminatorTable
                 THEN {} ELSE {e.claims[i].mainsnak.datavalue.type.text})
           \cup OffendingCalendar(e.claims[i].mainsnak.datavalue)
         : i \in 1..Len(e.claims)}

\* C15: decoding a token that is not in the table of its enumeration, the
\* empty string included, fails with an error whose text contains the token;
\* so does decoding a DataValue object (without an error string) whose type
\* member is not in the table, and no value is delivered; an entity with such
\* a token anywhere fails to decode with an error naming one of them, the
\* entity's own type first.
C15_ClosedEnumerations ==
  /\ (doc.kind = "token" /\ doc.token \notin TableOf(doc.enum) /\ decoded # NotRun) =>
        (decoded.err # "nil" /\ Contains(decoded.text, doc.token))
  /\ (/\ doc.kind = "datavalue" /\ doc.error.text = ""
      /\ doc.type.text \notin DiscriminatorTable /\ decoded # NotRun) =>
        /\ decoded.err = "unknown data value type"
        /\ Contains(decoded.text, doc.type.text)
        /\ decoded.value = NoValue
  /\ (doc.kind = "entity" /\ OffendingTokens(doc) # {} /\ decoded # NotRun) =>
        /\ decoded.err # "nil"
        /\ \E s \in OffendingTokens(doc) : Contains(decoded.text, s)
        /\ (doc.type \notin TableOf("EntityType") => Contains(decoded.text, doc.type))

\* C15 witness: the datatype token "commonsmedia" (the table has
\* "commonsMedia") has been refused with an error naming it.
C15_Witness ==
  /\ doc.kind = "token" /\ doc.enum = "DataType" /\ doc.token = "commonsmedia"
  /\ decoded # NotRun
  /\ decoded.err = "unknown data type"
  /\ decoded.text = <<"unknown data type", ": ", "commonsmedia">>

\* The two URIs of the Gregorian calendar.
GregorianURIs == {"https://www.wikidata.org/wiki/Q1985727",
                  "http://www.wikidata.org/entity/Q1985727"}

\* C16: both accepted URIs of a calendar decode to that calendar, never to an
\* unknown-calendar error; the encoding of the decoded value carries the
\* calendar's https://www.wikidata.org/wiki/ URI; and decoding that encoding
\* gives the same calendar again.
C16_CalendarCanonical ==
  (wire.calendarmodel \in AcceptedCalendarURIs /\ tv # NotRun) =>
    /\ tv.err # "unknown calendar model"
    /\ tv.err = "nil" =>
         /\ tv.value.Calendar =
              (IF wire.calendarmodel \in GregorianURIs THEN Gregorian ELSE Julian)
         /\ enc # NotRun =>
              enc.calendarmodel =
                (IF wire.calendarmodel \in GregorianURIs
                 THEN "https://www.wikidata.org/wiki/Q1985727"
                 ELSE "https://www.wikidata.org/wiki/Q1985786")
         /\ tv2 # NotRun => (tv2.err = "nil" /\ tv2.value.Calendar = tv.value.Calendar)

\* C16 witness: "http://www.wikidata.org/entity/Q1985786" has been decoded to
\* Julian, encoded as "https://www.wikidata.org/wiki/Q1985786" and decoded to
\* Julian again.
C16_Witness ==
  /\ wire.calendarmodel = "http://www.wikidata.org/entity/Q1985786"
  /\ tv2 # NotRun
  /\ tv.value.Calendar = Julian
  /\ enc.calendarmodel = "https://www.wikidata.org/wiki/Q1985786"
  /\ tv2.value.Calendar = Julian

\* C17: the frame of a line number n (0 <= n < 2^31) and a payload d is four
\* bytes that spell n least significant byte first, followed by d; and
\* ParseLineNumber of the frame returns n, a payload equal to d and no error,
\* for the empty payload too.
C17_FrameRoundTrip ==
  (src # NotRun /\ doc # NotRun) =>
    /\ Len(doc.bytes) = 4 + Len(src.data)
    /\ \A i \in 1..4 : doc.bytes[i] \in 0..255
    /\ doc.bytes[1] + 256 * (doc.bytes[2] + 256 * (doc.bytes[3] + 256 * doc.bytes[4]))
         = src.lineNumber
    /\ \A i \in 1..Len(src.data) : doc.bytes[4 + i] = src.data[i]
    /\ decoded # NotRun =>
         /\ decoded.err = "nil"
         /\ decoded.lineNumber = src.lineNumber
         /\ decoded.data = src.data

\* C17 witness: line number 2^31 - 1 with the empty payload has been framed
\* as FF FF FF 7F and parsed back.
C17_Witness ==
  /\ src # NotRun /\ decoded # NotRun
  /\ src.lineNumber = 2147483647 /\ src.data = <<>>
  /\ doc.bytes = <<255, 255, 255, 127>>
  /\ decoded.lineNumber = 2147483647 /\ decoded.data = <<>> /\ decoded.err = "nil"

\* The statements that read or write the snapshot, the dirty flag or the
\* since-last-flush counter, by the position of the goroutine about to run one.
SharedStateAccess ==
  {"bg_wait", "upd_pos", "upd_id", "upd_total", "upd_count", "upd_dirty", "upd_check",
   "save_check", "save_stamp", "save_reset", "save_clean"}

\* C18 (as the claim states it): a goroutine that runs a statement reading or
\* writing the shared state holds the mutex while it does.
C18_AllAccessUnderMutex ==
  [][\A t \in Threads :
       (pc[t] \in SharedStateAccess /\ pc'[t] # pc[t] /\ mgr' = "alive") => mu = t]_vars

\* C19 (as the claim states it): whatever snapshot the checkpoint file holds,
\* every position that a worker has taken and not yet reported is greater
\* than the file's position minus the number of workers.
C19_UnfinishedAboveWatermark ==
  file.kind = "json" =>
    \A t \in Workers : holding[t] # 0 => holding[t] > file.position - NumWorkers

\* C20: in the pipeline, the in-memory snapshot at every moment, the snapshot
\* being written and the snapshot in the checkpoint file all have
\* total_items >= position - W, W being the number of workers.
C20_TotalAbovePositionMinusW ==
  /\ mgr = "alive" =>
       currentCheckpoint.TotalItems >= currentCheckpoint.ProcessedPosition - NumWorkers
  /\ file.kind = "json" => file.total_items >= file.position - NumWorkers
  /\ tmp.kind = "json" => tmp.total_items >= tmp.position - NumWorkers

\* C20 witness: the file holds a snapshot whose position is ahead of its
\* count of items, and in memory the position has just been set W ahead of
\* the count.
C20_Witness ==
  /\ file.kind = "json"
  /\ file.position > file.total_items
  /\ mgr = "alive"
  /\ currentCheckpoint.TotalItems >= 1
  /\ currentCheckpoint.ProcessedPosition - NumWorkers = currentCheckpoint.TotalItems

\* C21: while a manager built by a constructor is alive and no operation
\* holds the mutex, a clear dirty flag means that the checkpoint file holds
\* exactly the in-memory snapshot (count, item id, position and timestamp),
\* or that there is no file and the snapshot is the empty one of a first start.
C21_CleanMeansPersisted ==
  (mgr = "alive" /\ mu = Free /\ ~dirty) =>
    \/ file.kind = "json" /\ file = Marshal(currentCheckpoint)
    \/ file = AbsentFile /\ currentCheckpoint = ZeroCheckpoint

\* C21 witness: a clean unlocked manager over a file that holds a snapshot
\* with reported items.
C21_Witness ==
  /\ mgr = "alive"
  /\ mu = Free
  /\ ~dirty
  /\ file.kind = "json"
  /\ currentCheckpoint.TotalItems >= 1
  /\ currentCheckpoint.SaveTimestamp # ZeroTime

\* total_items of the checkpoint file, 0 when there is no file.
PersistedTotalItems == IF file.kind = "json" THEN file.total_items ELSE 0

\* C22: while a manager built by a constructor is alive, no operation holds
\* the mutex and no flush of it has failed, the since-last-flush counter is
\* the in-memory total_items minus the file's total_items (0 without a file)
\* and is below the threshold: a crash loses at most ItemsThreshold - 1
\* reported updates.
C22_UnflushedBelowThreshold ==
  (mgr = "alive" /\ mu = Free /\ ~failed) =>
    /\ itemsSinceLastCheckpoint = currentCheckpoint.TotalItems - PersistedTotalItems
    /\ itemsSinceLastCheckpoint < ItemsThreshold

\* C22 witness: after a flush, a further update is reported and left
\* unflushed below the threshold.
C22_Witness ==
  /\ mgr = "alive"
  /\ mu = Free
  /\ ~failed
  /\ file.kind = "json"
  /\ file.total_items >= 1
  /\ itemsSinceLastCheckpoint >= 1
  /\ \A t \in Threads : pc[t] \in {"idle", "bg_wait", "bg_call"}

====
